---- MODULE Spec2Model ----
(***************************************************************************)
(* Model of the Garmin Connect MCP server (src/server.py) and of the       *)
(* one-time authentication script (src/auth.py).                           *)
(*                                                                         *)
(* The process state is the module-level `client`, the token store on      *)
(* disk, the process configuration (GARMIN_EMAIL / GARMIN_PASSWORD) and    *)
(* the data held by the remote service.  Every tool handler is one action; *)
(* the outcomes of the calls into the garminconnect library (login, dump,  *)
(* data reads and writes) are inputs of the action.  Each action records   *)
(* the calls it made, in order, in `last.calls`, and what it returned in   *)
(* `last.result`.                                                          *)
(***************************************************************************)
EXTENDS Integers, Sequences, FiniteSets, TLC

VARIABLES
    started,      \* FALSE before `__main__` ran init_client(), TRUE while mcp.run serves
    client,       \* server.py:28  the module-level `client` (NoClient models None)
    tokenstore,   \* the directory TOKENSTORE: whether it exists, whose tokens it holds
    email,        \* os.getenv("GARMIN_EMAIL")
    password,     \* os.getenv("GARMIN_PASSWORD")
    remote,       \* data held by the remote service that the write tools change
    tokenLogins,  \* number of c.login(tokenstore=TOKENSTORE) calls of this process
    credLogins,   \* number of c.login() calls with email/password of this process
    invocations,  \* number of tool invocations dispatched so far
    last,         \* the latest step: what ran, the state it started from, the calls
                  \* it made, what it returned
    threads,      \* handlers running side by side: where each one is in get_client()
                  \* and init_client(), and its local names
    order         \* the assignments to `client` made by those handlers, in order

vars == <<started, client, tokenstore, email, password, remote,
          tokenLogins, credLogins, invocations, last, threads, order>>

----------------------------------------------------------------------------
(* Bounds of the model *)

\* Tool invocations dispatched in one run of the process.
MaxInvocations == 2

\* Tool invocations dispatched in one run of the process when the runtime
\* runs handlers side by side.
MaxOps == 3

----------------------------------------------------------------------------
(* Strings are sequences of one-character strings, so that parsing and     *)
(* formatting are computed and not assumed.                                *)

Digits == <<"0", "1", "2", "3", "4", "5", "6", "7", "8", "9">>

IsDigit(ch) == \E i \in 1..10 : Digits[i] = ch

DigitVal(ch) == (CHOOSE i \in 1..10 : Digits[i] = ch) - 1

DigitChar(n) == Digits[n + 1]

\* Python None, for values that are strings otherwise.
None == <<"<None>">>

\* Python truthiness of an optional string: None and "" are falsy.
Truthy(s) == s # None /\ s # <<>>

----------------------------------------------------------------------------
(* datetime.date, datetime.strptime(s, "%Y-%m-%d"), date.isoformat(),      *)
(* date + timedelta(days=1)                                                *)

IsLeap(y) == (y % 4 = 0 /\ y % 100 # 0) \/ y % 400 = 0

DaysInMonth(y, m) ==
    IF m = 2 THEN (IF IsLeap(y) THEN 29 ELSE 28)
    ELSE IF m \in {4, 6, 9, 11} THEN 30 ELSE 31

\* The order of datetime.date: `end < start`, `current <= end`.
DateLess(a, b) ==
    \/ a.y < b.y
    \/ a.y = b.y /\ a.m < b.m
    \/ a.y = b.y /\ a.m = b.m /\ a.d < b.d

\* Bug: the loop stops before the end date (`current < end`).
DateLeqExclusive(a, b) == DateLess(a, b)

DateLeq(a, b) == a = b \/ DateLess(a, b)

\* current += timedelta(days=1)
NextDay(dt) ==
    IF dt.d < DaysInMonth(dt.y, dt.m) THEN [dt EXCEPT !.d = dt.d + 1]
    ELSE IF dt.m < 12 THEN [y |-> dt.y, m |-> dt.m + 1, d |-> 1]
    ELSE [y |-> dt.y + 1, m |-> 1, d |-> 1]

\* date.isoformat(): "%04d-%02d-%02d"
IsoFormat(dt) ==
    << DigitChar(dt.y \div 1000), DigitChar((dt.y \div 100) % 10),
       DigitChar((dt.y \div 10) % 10), DigitChar(dt.y % 10), "-",
       DigitChar(dt.m \div 10), DigitChar(dt.m % 10), "-",
       DigitChar(dt.d \div 10), DigitChar(dt.d % 10) >>

\* The text matched by the directive %m: 1[0-2]|0[1-9]|[1-9]
MonthField(f) ==
    \/ Len(f) = 2 /\ f[1] = "1" /\ f[2] \in {"0", "1", "2"}
    \/ Len(f) = 2 /\ f[1] = "0" /\ IsDigit(f[2]) /\ f[2] # "0"
    \/ Len(f) = 1 /\ IsDigit(f[1]) /\ f[1] # "0"

\* The text matched by the directive %d: 3[0-1]|[1-2]\d|0[1-9]|[1-9]| [1-9]
DayField(f) ==
    \/ Len(f) = 2 /\ f[1] = "3" /\ f[2] \in {"0", "1"}
    \/ Len(f) = 2 /\ f[1] \in {"1", "2"} /\ IsDigit(f[2])
    \/ Len(f) = 2 /\ f[1] \in {"0", " "} /\ IsDigit(f[2]) /\ f[2] # "0"
    \/ Len(f) = 1 /\ IsDigit(f[1]) /\ f[1] # "0"

\* The value of a matched one- or two-character field.
FieldVal(f) ==
    IF Len(f) = 1 THEN DigitVal(f[1])
    ELSE (IF f[1] = " " THEN 0 ELSE 10 * DigitVal(f[1])) + DigitVal(f[2])

\* The positions of the "-" in s after the four year characters.
Dashes(s) == {i \in 5..Len(s) : s[i] = "-"}

\* datetime.strptime(s, "%Y-%m-%d").date(): the date, or the ValueError it raises.
StrpDate(s) ==
    LET bad == [ok |-> FALSE, date |-> [y |-> 0, m |-> 0, d |-> 0]]
    IN  IF Len(s) < 8 \/ Len(s) > 10 THEN bad
        ELSE IF ~(\A i \in 1..4 : IsDigit(s[i])) \/ s[5] # "-" THEN bad
        ELSE IF Cardinality(Dashes(s)) # 2 THEN bad
        ELSE LET p  == CHOOSE i \in Dashes(s) : i > 5
                 mf == SubSeq(s, 6, p - 1)
                 df == SubSeq(s, p + 1, Len(s))
                 y  == 1000 * DigitVal(s[1]) + 100 * DigitVal(s[2])
                       + 10 * DigitVal(s[3]) + DigitVal(s[4])
             IN  IF ~MonthField(mf) \/ ~DayField(df) THEN bad
                 ELSE IF y < 1 \/ FieldVal(df) > DaysInMonth(y, FieldVal(mf)) THEN bad
                 ELSE [ok |-> TRUE,
                       date |-> [y |-> y, m |-> FieldVal(mf), d |-> FieldVal(df)]]

----------------------------------------------------------------------------
(* Exceptions *)

\* garminconnect's three classified errors (server.py:9-11); each derives from Exception.
GarminErrors == {"GarminConnectAuthenticationError", "GarminConnectConnectionError",
                 "GarminConnectTooManyRequestsError"}

\* What a call into the client library can raise: the classified errors, the
\* builtin ConnectionError, a ValueError (a response body that is not JSON)
\* and any other exception.
RemoteErrors == GarminErrors \cup {"ConnectionError", "ValueError", "RuntimeError"}

\* Python's class hierarchy, as far as the except clauses can tell.
IsInstance(type, class) ==
    \/ class = type
    \/ class = "Exception"

\* str(e)
ExcMsg(type) ==
    CASE type = "GarminConnectAuthenticationError"  -> <<"Authentication error">>
      [] type = "GarminConnectConnectionError"      -> <<"Connection error">>
      [] type = "GarminConnectTooManyRequestsError" -> <<"Too many requests">>
      [] type = "ConnectionError"                   -> <<"Connection reset by peer">>
      [] type = "ValueError"                        -> <<"Expecting value: line 1 column 1">>
      [] type = "AttributeError"    -> <<"'NoneType' object has no attribute 'get'">>
      [] type = "TypeError"         -> <<"object of type 'NoneType' has no len()">>
      [] OTHER                                      -> <<"unexpected failure">>

NoExc == [type |-> "", msg |-> <<>>]

Raise(type) == [type |-> type, msg |-> ExcMsg(type)]

\* server.py:72-74
NotAuthenticatedMsg == <<"Not authenticated. Run auth.py to set up Garmin credentials.">>

\* Bug: the library's connection error is raised instead of the builtin.
NotAuthenticatedAsGarmin ==
    [type |-> "GarminConnectConnectionError", msg |-> NotAuthenticatedMsg]

\* server.py:72-75  the ConnectionError get_client() raises
NotAuthenticated == [type |-> "ConnectionError", msg |-> NotAuthenticatedMsg]

\* The ValueError of strptime; its text names the input or the offending field.
StrptimeError == [type |-> "ValueError",
                  msg |-> <<"time data does not match format '%Y-%m-%d'">>]

ApiPrefix == <<"Garmin API error: ">>

DatePrefix == <<"Invalid date format: ">>

----------------------------------------------------------------------------
(* Session manager: init_client, get_client *)

\* A session is a Garmin object that logged in: `id` tells the objects apart
\* (the n-th object this process constructed), `auth` is the path that made it.
NoClient == [id |-> 0, auth |-> "none"]

Outcomes == {"ok", "fail"}

\* A step of a handler: the call it made and how the call ended.
Called(m, fn, out) == [m EXCEPT !.calls = Append(@, [fn |-> fn, out |-> out])]

\* Bug: the token login is tried without looking for the token store.
TokenPathAlways(ts) == TRUE

\* server.py:36  os.path.exists(TOKENSTORE)
TokenPathAvailable(ts) == ts.exists

\* Bug: the password is not checked.
EmailConfigured(e, p) == Truthy(e)

\* server.py:51  `if email and password`
CredentialsConfigured(e, p) == Truthy(e) /\ Truthy(p)

\* garth.dump(TOKENSTORE): the directory then holds the tokens of session c.
Dumped(m, c, out) ==
    LET m1 == Called(m, "garth.dump", out)
    IN  IF out = "ok" THEN [m1 EXCEPT !.tokenstore = [exists |-> TRUE, owner |-> c.id]]
        ELSE m1

\* Bug: `client = c` stands before the dump, so a dump that raises leaves the
\* session cached.
TokenAuthCachesFirst(m, a) ==
    LET c  == [id |-> m.tokenLogins + m.credLogins + 1, auth |-> "token"]
        m1 == Called([m EXCEPT !.tokenLogins = @ + 1],
                     "login(tokenstore)", a.tokLogin)
        m2 == Dumped([m1 EXCEPT !.client = c], c, a.tokDump)
    IN  IF a.tokLogin # "ok" THEN [m |-> m1, ok |-> FALSE]
        ELSE IF a.tokDump # "ok" THEN [m |-> m2, ok |-> FALSE]
        ELSE [m |-> m2, ok |-> TRUE]

\* server.py:37-45  the try block of the token path; `ok` is FALSE when it raised.
TokenAuth(m, a) ==
    LET c  == [id |-> m.tokenLogins + m.credLogins + 1, auth |-> "token"]
        m1 == Called([m EXCEPT !.tokenLogins = @ + 1],
                     "login(tokenstore)", a.tokLogin)
        m2 == Dumped(m1, c, a.tokDump)
    IN  IF a.tokLogin # "ok" THEN [m |-> m1, ok |-> FALSE]
        ELSE IF a.tokDump # "ok" THEN [m |-> m2, ok |-> FALSE]
        ELSE [m |-> [m2 EXCEPT !.client = c], ok |-> TRUE]

\* Bug: `client = c` binds a local name, the module-level client stays None.
CredAuthNoCache(m, a) ==
    LET c  == [id |-> m.tokenLogins + m.credLogins + 1, auth |-> "cred"]
        m1 == Called([m EXCEPT !.credLogins = @ + 1],
                     "login(email,password)", a.credLogin)
        m2 == Dumped(m1, c, a.credDump)
    IN  IF a.credLogin # "ok" THEN [m |-> m1, ok |-> FALSE]
        ELSE IF a.credDump # "ok" THEN [m |-> m2, ok |-> FALSE]
        ELSE [m |-> m2, ok |-> TRUE]

\* server.py:52-60  the try block of the credential path.
CredAuth(m, a) ==
    LET c  == [id |-> m.tokenLogins + m.credLogins + 1, auth |-> "cred"]
        m1 == Called([m EXCEPT !.credLogins = @ + 1],
                     "login(email,password)", a.credLogin)
        m2 == Dumped(m1, c, a.credDump)
    IN  IF a.credLogin # "ok" THEN [m |-> m1, ok |-> FALSE]
        ELSE IF a.credDump # "ok" THEN [m |-> m2, ok |-> FALSE]
        ELSE [m |-> [m2 EXCEPT !.client = c], ok |-> TRUE]

\* server.py:47-63  the credential fallback and the final `return None`.
CredFallback(m, a) ==
    IF CredentialsConfigured(m.email, m.password) THEN CredAuth(m, a).m ELSE m

\* Bug: the `return client` of the token path is missing.
InitClientFallsThrough(m, a) ==
    LET m0 == Called(m, "init_client", "ok")
    IN  IF TokenPathAvailable(m0.tokenstore)
        THEN CredFallback(TokenAuth(m0, a).m, a)
        ELSE CredFallback(m0, a)

\* server.py:31-63  init_client(): the process state after it returned.
InitClient(m, a) ==
    LET m0 == Called(m, "init_client", "ok")
    IN  IF TokenPathAvailable(m0.tokenstore)
        THEN LET t == TokenAuth(m0, a)
             IN  IF t.ok THEN t.m ELSE CredFallback(t.m, a)
        ELSE CredFallback(m0, a)

\* Bug: get_client() initializes on every call.
AlwaysInit(c) == TRUE

\* Bug: get_client() relies on the eager startup initialization alone.
NeverInit(c) == FALSE

\* server.py:69  `if client is None`
NeedsInit(c) == c = NoClient

\* server.py:66-75  get_client(): the state after it, and what it raised.
GetClient(m, a) ==
    LET m1 == IF NeedsInit(m.client) THEN InitClient(m, a) ELSE m
    IN  IF m1.client = NoClient THEN [m |-> m1, exc |-> NotAuthenticated]
        ELSE [m |-> m1, exc |-> NoExc]

\* The outcomes of the login and dump calls that an acquisition starting in
\* state m can reach; one combination when no such call can be made.
AuthEnvs(m) ==
    LET tok  == NeedsInit(m.client) /\ TokenPathAvailable(m.tokenstore)
        cred == NeedsInit(m.client) /\ CredentialsConfigured(m.email, m.password)
    IN  { a \in [tokLogin : Outcomes, tokDump : Outcomes,
                 credLogin : Outcomes, credDump : Outcomes] :
            /\ (~tok \/ a.tokLogin = "fail") => a.tokDump = "ok"
            /\ ~tok => a.tokLogin = "ok"
            /\ (~cred \/ a.credLogin = "fail") => a.credDump = "ok"
            /\ ~cred => a.credLogin = "ok"
            /\ (tok /\ a.tokLogin = "ok" /\ a.tokDump = "ok")
                   => (a.credLogin = "ok" /\ a.credDump = "ok") }

----------------------------------------------------------------------------
(* JSON values returned by the remote service, and Python's dict.get *)

JNull == [t |-> "null"]

JNum(n) == [t |-> "num", v |-> n]

JStr(x) == [t |-> "str", v |-> x]

JArr(x) == [t |-> "arr", items |-> x]

JObj(f) == [t |-> "obj", fields |-> f]

\* d.get(key, default) for a dict d
Get(d, key, default) ==
    IF key \in DOMAIN d.fields THEN d.fields[key] ELSE default

\* d.get(key): the default is None
GetOrNone(d, key) == Get(d, key, JNull)

EmptyDict == JObj(<<>>)

----------------------------------------------------------------------------
(* The result envelope and the except clauses of the handlers *)

Failure(error) == [success |-> FALSE, error |-> error]

\* Placeholder of `last.result` when the step returned no envelope.
NoResult == [success |-> FALSE, error |-> <<>>]

\* What a handler (or a block of one) ends with: the process state, and either
\* the value it produced or the exception that left it.
Done(m, v) == [m |-> m, exc |-> NoExc, val |-> v]

Thrown(m, exc) == [m |-> m, exc |-> exc, val |-> NoResult]

\* Bug: the final `except Exception` clause is missing.
ReadExceptsNoCatchAll ==
    << [classes |-> {"ConnectionError"}, prefix |-> <<>>],
       [classes |-> GarminErrors,        prefix |-> ApiPrefix] >>

\* Bug: the rate-limit error is missing from the classified clause.
ReadExceptsNoRateLimit ==
    << [classes |-> {"ConnectionError"}, prefix |-> <<>>],
       [classes |-> GarminErrors \ {"GarminConnectTooManyRequestsError"},
        prefix |-> ApiPrefix],
       [classes |-> {"Exception"},       prefix |-> <<>>] >>

\* server.py:100-109 (and the same clauses of every tool but update_menstrual_cycle):
\* the classes each clause catches, in order, and what it puts before str(e).
ReadExcepts ==
    << [classes |-> {"ConnectionError"}, prefix |-> <<>>],
       [classes |-> GarminErrors,        prefix |-> ApiPrefix],
       [classes |-> {"Exception"},       prefix |-> <<>>] >>

\* server.py:412-423
UpdateExcepts ==
    << [classes |-> {"ConnectionError"}, prefix |-> <<>>],
       [classes |-> GarminErrors,        prefix |-> ApiPrefix],
       [classes |-> {"ValueError"},      prefix |-> DatePrefix],
       [classes |-> {"Exception"},       prefix |-> <<>>] >>

\* The clauses of `clauses` that catch an exception of class `type`.
Catching(clauses, type) ==
    {i \in 1..Len(clauses) : \E c \in clauses[i].classes : IsInstance(type, c)}

\* Bug: a handler that catches an authentication error of the remote service
\* drops the cached session.
TryExceptClearsSession(clauses, r) ==
    LET m == IF r.exc.type = "GarminConnectAuthenticationError"
             THEN [r.m EXCEPT !.client = NoClient] ELSE r.m
    IN  IF r.exc = NoExc
        THEN [m |-> r.m, thrown |-> "", raised |-> FALSE, result |-> r.val]
        ELSE IF Catching(clauses, r.exc.type) = {}
             THEN [m |-> m, thrown |-> r.exc.type, raised |-> TRUE, result |-> NoResult]
             ELSE LET i == CHOOSE j \in Catching(clauses, r.exc.type) :
                               \A k \in Catching(clauses, r.exc.type) : j <= k
                  IN  [m |-> m, thrown |-> r.exc.type, raised |-> FALSE,
                       result |-> Failure(clauses[i].prefix \o r.exc.msg)]

\* try: body  except ...: the envelope of the first matching clause; the
\* exception leaves the handler (`raised`) when no clause matches.  `thrown` is
\* the class of the exception that left the body, "" when none did.
TryExcept(clauses, r) ==
    IF r.exc = NoExc
    THEN [m |-> r.m, thrown |-> "", raised |-> FALSE, result |-> r.val]
    ELSE IF Catching(clauses, r.exc.type) = {}
         THEN [m |-> r.m, thrown |-> r.exc.type, raised |-> TRUE, result |-> NoResult]
         ELSE LET i == CHOOSE j \in Catching(clauses, r.exc.type) :
                           \A k \in Catching(clauses, r.exc.type) : j <= k
              IN  [m |-> r.m, thrown |-> r.exc.type, raised |-> FALSE,
                   result |-> Failure(clauses[i].prefix \o r.exc.msg)]

\* server.py:78-80  resolve_date(d)
ResolveDate(d, today) == IF Truthy(d) THEN d ELSE IsoFormat(today)

\* Bug: a read call that failed is issued a second time.
RemoteCallRetry(m, fn, r) ==
    LET c  == [fn |-> fn, out |-> r.out, ret |-> r.data]
        m1 == [m EXCEPT !.calls = Append(@, c)]
        m2 == [m EXCEPT !.calls = Append(Append(@, c), c)]
    IN  IF r.out = "ok" THEN Done(m1, r.data) ELSE Thrown(m2, Raise(r.out))

\* A call of a method of the client: recorded with the value it returned,
\* and raising when it failed.
RemoteCall(m, fn, r) ==
    LET m1 == [m EXCEPT !.calls = Append(@, [fn |-> fn, out |-> r.out, ret |-> r.data])]
    IN  IF r.out = "ok" THEN Done(m1, r.data) ELSE Thrown(m1, Raise(r.out))

----------------------------------------------------------------------------
(* Read tools *)

\* The body of the try block of a tool that makes one read call with the
\* resolved date and passes the answer through (server.py:97-99 and alike).
DateReadBody(m, a, fn, cdate, r) ==
    LET g == GetClient(m, a)
    IN  IF g.exc # NoExc THEN Thrown(g.m, g.exc)
        ELSE LET c == RemoteCall(g.m, fn, r)
             IN  IF c.exc # NoExc THEN c
                 ELSE Done(c.m, [success |-> TRUE, date |-> cdate, data |-> c.val])

\* server.py:95-109 and the tools of the same shape.
DateRead(m, a, fn, date, today, r) ==
    TryExcept(ReadExcepts, DateReadBody(m, a, fn, ResolveDate(date, today), r))

\* Bug: when the events call fails the handler answers with the battery levels
\* it already has.
BodyBatteryPartial(m, a, date, today, r1, r2) ==
    LET cdate == ResolveDate(date, today)
        g  == GetClient(m, a)
        c1 == RemoteCall(g.m, "get_body_battery", r1)
        c2 == RemoteCall(c1.m, "get_body_battery_events", r2)
        body == IF g.exc # NoExc THEN Thrown(g.m, g.exc)
                ELSE IF c1.exc # NoExc THEN c1
                ELSE IF c2.exc # NoExc
                     THEN Done(c2.m, [success |-> FALSE, error |-> c2.exc.msg,
                                      date |-> cdate, battery |-> c1.val])
                ELSE Done(c2.m, [success |-> TRUE, date |-> cdate,
                                 battery |-> c1.val, events |-> c2.val])
    IN  TryExcept(ReadExcepts, body)

\* server.py:121-141  get_body_battery
BodyBattery(m, a, date, today, r1, r2) ==
    LET cdate == ResolveDate(date, today)
        g  == GetClient(m, a)
        c1 == RemoteCall(g.m, "get_body_battery", r1)
        c2 == RemoteCall(c1.m, "get_body_battery_events", r2)
        body == IF g.exc # NoExc THEN Thrown(g.m, g.exc)
                ELSE IF c1.exc # NoExc THEN c1
                ELSE IF c2.exc # NoExc THEN c2
                ELSE Done(c2.m, [success |-> TRUE, date |-> cdate,
                                 battery |-> c1.val, events |-> c2.val])
    IN  TryExcept(ReadExcepts, body)

\* Bug: the score is read one level too high, from sleepScores instead of
\* sleepScores.overall.
SleepSummaryScoreLevel(sleep) ==
    LET dto     == Get(sleep, "dailySleepDTO", EmptyDict)
        scores  == Get(dto, "sleepScores", EmptyDict)
        levels  == Get(sleep, "sleepLevels", JArr(<<>>))
        overall == Get(scores, "overall", EmptyDict)
    IN  IF sleep.t # "obj" \/ dto.t # "obj" THEN [ok |-> FALSE, summary |-> <<>>]
        ELSE IF scores.t # "obj" \/ overall.t # "obj" THEN [ok |-> FALSE, summary |-> <<>>]
        ELSE [ok |-> TRUE, summary |->
               [calendarDate         |-> GetOrNone(dto, "calendarDate"),
                sleepScore           |-> GetOrNone(scores, "value"),
                sleepQuality         |-> GetOrNone(overall, "qualifierKey"),
                sleepStartLocal      |-> GetOrNone(dto, "sleepStartTimestampLocal"),
                sleepEndLocal        |-> GetOrNone(dto, "sleepEndTimestampLocal"),
                sleepDurationSecs    |-> GetOrNone(dto, "sleepTimeSeconds"),
                deepSleepSecs        |-> GetOrNone(dto, "deepSleepSeconds"),
                lightSleepSecs       |-> GetOrNone(dto, "lightSleepSeconds"),
                remSleepSecs         |-> GetOrNone(dto, "remSleepSeconds"),
                awakeSleepSecs       |-> GetOrNone(dto, "awakeSleepSeconds"),
                averageSpO2          |-> GetOrNone(dto, "averageSpO2Value"),
                lowestSpO2           |-> GetOrNone(dto, "lowestSpO2Value"),
                averageRespiration   |-> GetOrNone(dto, "averageRespirationValue"),
                restingHeartRate     |-> GetOrNone(sleep, "restingHeartRate"),
                avgOvernightHrv      |-> GetOrNone(sleep, "avgOvernightHrv"),
                hrvStatus            |-> GetOrNone(sleep, "hrvStatus"),
                bodyBatteryChange    |-> GetOrNone(sleep, "bodyBatteryChange"),
                restlessMomentsCount |-> GetOrNone(sleep, "restlessMomentsCount"),
                sleepLevels          |-> levels]]

\* server.py:158-182  the summary built from the sleep payload; `.get` on a
\* value that is no dict raises AttributeError.
SleepSummary(sleep) ==
    LET dto     == Get(sleep, "dailySleepDTO", EmptyDict)
        scores  == Get(dto, "sleepScores", EmptyDict)
        levels  == Get(sleep, "sleepLevels", JArr(<<>>))
        overall == Get(scores, "overall", EmptyDict)
    IN  IF sleep.t # "obj" \/ dto.t # "obj" THEN [ok |-> FALSE, summary |-> <<>>]
        ELSE IF scores.t # "obj" \/ overall.t # "obj" THEN [ok |-> FALSE, summary |-> <<>>]
        ELSE [ok |-> TRUE, summary |->
               [calendarDate         |-> GetOrNone(dto, "calendarDate"),
                sleepScore           |-> GetOrNone(overall, "value"),
                sleepQuality         |-> GetOrNone(overall, "qualifierKey"),
                sleepStartLocal      |-> GetOrNone(dto, "sleepStartTimestampLocal"),
                sleepEndLocal        |-> GetOrNone(dto, "sleepEndTimestampLocal"),
                sleepDurationSecs    |-> GetOrNone(dto, "sleepTimeSeconds"),
                deepSleepSecs        |-> GetOrNone(dto, "deepSleepSeconds"),
                lightSleepSecs       |-> GetOrNone(dto, "lightSleepSeconds"),
                remSleepSecs         |-> GetOrNone(dto, "remSleepSeconds"),
                awakeSleepSecs       |-> GetOrNone(dto, "awakeSleepSeconds"),
                averageSpO2          |-> GetOrNone(dto, "averageSpO2Value"),
                lowestSpO2           |-> GetOrNone(dto, "lowestSpO2Value"),
                averageRespiration   |-> GetOrNone(dto, "averageRespirationValue"),
                restingHeartRate     |-> GetOrNone(sleep, "restingHeartRate"),
                avgOvernightHrv      |-> GetOrNone(sleep, "avgOvernightHrv"),
                hrvStatus            |-> GetOrNone(sleep, "hrvStatus"),
                bodyBatteryChange    |-> GetOrNone(sleep, "bodyBatteryChange"),
                restlessMomentsCount |-> GetOrNone(sleep, "restlessMomentsCount"),
                sleepLevels          |-> levels]]

\* server.py:153-194  get_sleep_data
SleepData(m, a, date, today, r) ==
    LET cdate == ResolveDate(date, today)
        g == GetClient(m, a)
        c == RemoteCall(g.m, "get_sleep_data", r)
        s == SleepSummary(c.val)
        body == IF g.exc # NoExc THEN Thrown(g.m, g.exc)
                ELSE IF c.exc # NoExc THEN c
                ELSE IF ~s.ok THEN Thrown(c.m, Raise("AttributeError"))
                ELSE Done(c.m, [success |-> TRUE, date |-> cdate, data |-> s.summary])
    IN  TryExcept(ReadExcepts, body)

\* server.py:212-221  the detail built from the sleep payload.
SleepDetailOf(sleep) ==
    IF sleep.t # "obj" THEN [ok |-> FALSE, detail |-> <<>>]
    ELSE [ok |-> TRUE, detail |->
           [sleepMovement    |-> GetOrNone(sleep, "sleepMovement"),
            sleepHeartRate   |-> GetOrNone(sleep, "sleepHeartRate"),
            sleepStress      |-> GetOrNone(sleep, "sleepStress"),
            sleepBodyBattery |-> GetOrNone(sleep, "sleepBodyBattery"),
            hrvData          |-> GetOrNone(sleep, "hrvData"),
            spO2Data         |-> GetOrNone(sleep, "wellnessEpochSPO2DataDTOList"),
            respirationData  |-> GetOrNone(sleep, "wellnessEpochRespirationDataDTOList"),
            restlessMoments  |-> GetOrNone(sleep, "sleepRestlessMoments")]]

\* server.py:207-233  get_sleep_detail
SleepDetail(m, a, date, today, r) ==
    LET cdate == ResolveDate(date, today)
        g == GetClient(m, a)
        c == RemoteCall(g.m, "get_sleep_data", r)
        s == SleepDetailOf(c.val)
        body == IF g.exc # NoExc THEN Thrown(g.m, g.exc)
                ELSE IF c.exc # NoExc THEN c
                ELSE IF ~s.ok THEN Thrown(c.m, Raise("AttributeError"))
                ELSE Done(c.m, [success |-> TRUE, date |-> cdate, data |-> s.detail])
    IN  TryExcept(ReadExcepts, body)

\* len(v): defined for lists, dicts and strings; TypeError otherwise.
PyLen(v) ==
    CASE v.t = "arr" -> [ok |-> TRUE, n |-> Len(v.items)]
      [] v.t = "obj" -> [ok |-> TRUE, n |-> Cardinality(DOMAIN v.fields)]
      [] v.t = "str" -> [ok |-> TRUE, n |-> Len(v.v)]
      [] OTHER       -> [ok |-> FALSE, n |-> 0]

\* server.py:516-529  get_activities
Activities(m, a, limit, r) ==
    LET g == GetClient(m, a)
        c == RemoteCall(g.m, "get_activities", r)
        n == PyLen(c.val)
        body == IF g.exc # NoExc THEN Thrown(g.m, g.exc)
                ELSE IF c.exc # NoExc THEN c
                ELSE IF ~n.ok THEN Thrown(c.m, Raise("TypeError"))
                ELSE Done(c.m, [success |-> TRUE, count |-> n.n, data |-> c.val])
    IN  TryExcept(ReadExcepts, body)

----------------------------------------------------------------------------
(* Write tools *)

\* A write call, recorded with the argument it sent: the remote data changes
\* when the call succeeded.
RemoteWrite(m, fn, arg, out, applied) ==
    LET m1 == [m EXCEPT !.calls = Append(@, [fn |-> fn, out |-> out, arg |-> arg])]
    IN  IF out = "ok" THEN Done([m1 EXCEPT !.remote = applied], JNull)
        ELSE Thrown(m1, Raise(out))

\* server.py:487-505  add_hydration
AddHydration(m, a, amount_ml, w) ==
    LET g == GetClient(m, a)
        c == RemoteWrite(g.m, "add_hydration_data", amount_ml, w.out,
                         [g.m.remote EXCEPT !.hydration = @ + amount_ml])
        body == IF g.exc # NoExc THEN Thrown(g.m, g.exc)
                ELSE IF c.exc # NoExc THEN c
                ELSE Done(c.m, [success |-> TRUE, logged_ml |-> amount_ml,
                                message |-> [text |-> "Logged {amount_ml}ml of water",
                                             amount_ml |-> amount_ml],
                                data |-> w.data])
    IN  TryExcept(ReadExcepts, body)

\* server.py:363  GARMIN_USER_PROFILE_PK, unset in the environment
GARMIN_USER_PROFILE_PK == 0

\* server.py:362
MENSTRUAL_CALENDAR_URL == "/periodichealth-service/menstrualcycle/calendarupdates"

\* server.py:386-390  the loop that collects the dates from `current` to `end`.
RECURSIVE CycleDates(_, _)
CycleDates(current, end) ==
    IF DateLeq(current, end)
    THEN <<IsoFormat(current)>> \o CycleDates(NextDay(current), end)
    ELSE <<>>

\* server.py:395-403
Payload(start_date, end_date, cycle_dates, today, now) ==
    [userProfilePk     |-> GARMIN_USER_PROFILE_PK,
     todayCalendarDate |-> IsoFormat(today),
     startDate         |-> start_date,
     endDate           |-> end_date,
     futureEditsByFE   |-> TRUE,
     reportTimestamp   |-> now,
     cycleDatesLists   |-> <<cycle_dates>>]

\* server.py:376-411  the try block of update_menstrual_cycle
UpdateBody(m, a, start_date, end_date, today, now, w) ==
    LET g     == GetClient(m, a)
        start == StrpDate(start_date)
        end   == StrpDate(end_date)
        cycle_dates == CycleDates(start.date, end.date)
        payload == Payload(start_date, end_date, cycle_dates, today, now)
        c == RemoteWrite(g.m, "connectapi", payload, w.out,
                         [g.m.remote EXCEPT !.calendar = <<payload>>])
    IN  IF g.exc # NoExc THEN Thrown(g.m, g.exc)
        ELSE IF ~start.ok \/ ~end.ok THEN Thrown(g.m, StrptimeError)
        ELSE IF DateLess(end.date, start.date)
             THEN Done(g.m, Failure(<<"end_date must be on or after start_date">>))
        ELSE IF c.exc # NoExc THEN c
        ELSE Done(c.m, [success |-> TRUE,
                        message |-> [text |-> "Period logged: {start_date} to {end_date} ({n} days)",
                                     start_date |-> start_date, end_date |-> end_date,
                                     n |-> Len(cycle_dates)],
                        dates |-> cycle_dates])

\* server.py:367-423  update_menstrual_cycle
UpdateMenstrualCycle(m, a, start_date, end_date, today, now, w) ==
    TryExcept(UpdateExcepts, UpdateBody(m, a, start_date, end_date, today, now, w))

----------------------------------------------------------------------------
(* Inputs: the arguments the agent passes, the clock, the answers of the   *)
(* remote service                                                          *)

Str_2024_02_28 == <<"2", "0", "2", "4", "-", "0", "2", "-", "2", "8">>

Str_2024_03_01 == <<"2", "0", "2", "4", "-", "0", "3", "-", "0", "1">>

\* Accepted by strptime although not zero-padded.
Str_2024_2_29 == <<"2", "0", "2", "4", "-", "2", "-", "2", "9">>

\* Matches the format, but 2023 has no 29 February.
Str_2023_02_29 == <<"2", "0", "2", "3", "-", "0", "2", "-", "2", "9">>

Str_not_a_date == <<"n", "o", "t", "-", "a", "-", "d", "a", "t", "e">>

DateStrings == {Str_2024_02_28, Str_2024_03_01, Str_2024_2_29, Str_2023_02_29,
                Str_not_a_date}

\* The optional `date` argument of the read tools.
DateArgs == {None, <<>>, Str_2024_02_28}

\* date.today()
Todays == {[y |-> 2024, m |-> 3, d |-> 1]}

\* datetime.now().strftime("%Y-%m-%dT%H:%M:%S.%f")[:-3]
Nows == {"2024-03-01T12:00:00.000"}

AmountsMl == {250}

Limits == {5}

\* Answers of the passed-through read calls.
Payloads == {JNull, JObj([value |-> JNum(1)])}

FullSleep ==
    JObj([dailySleepDTO |->
              JObj([calendarDate |-> JStr("2024-02-28"),
                    sleepTimeSeconds |-> JNum(28800),
                    sleepScores |-> JObj([overall |->
                        JObj([value |-> JNum(85), qualifierKey |-> JStr("GOOD")])])]),
          sleepLevels |-> JArr(<<JNum(1), JNum(2)>>),
          restingHeartRate |-> JNum(52),
          sleepMovement |-> JArr(<<JNum(3)>>),
          sleepHeartRate |-> JArr(<<JNum(60)>>)])

\* Answers of get_sleep_data: a full night, a day without sleep data (the
\* nested objects absent or null), and no answer.
SleepPayloads ==
    { FullSleep,
      JObj([dailySleepDTO |-> JObj([calendarDate |-> JStr("2024-02-28")])]),
      JObj([dailySleepDTO |-> JNull]),
      EmptyDict,
      JNull }

ActivityPayloads == {JArr(<<>>), JArr(<<JStr("run"), JStr("walk")>>), JNull}

\* How a call of the client can end, with the answer it gives.
Answers(payloads) ==
    {[out |-> "ok", data |-> p] : p \in payloads}
        \cup {[out |-> e, data |-> JNull] : e \in RemoteErrors}

\* The answers to enumerate for a call: those of `payloads` when the handler
\* reaches the call, one unused answer otherwise.
AnswersIf(reached, payloads) ==
    IF reached THEN Answers(payloads) ELSE {[out |-> "ok", data |-> JNull]}

\* The handler gets a session from get_client().
Acquires(m, a) == GetClient(m, a).exc = NoExc

----------------------------------------------------------------------------
(* The state machine *)

NoStore == [exists |-> FALSE, owner |-> 0]

\* Tokens saved by a run of auth.py.
SavedStore == [exists |-> TRUE, owner |-> 0]

Email == <<"a", "@", "b">>

Secret == <<"p", "w">>

\* GARMIN_EMAIL and GARMIN_PASSWORD as .env gives them: unset, empty or set.
Configurations == {<<None, None>>, <<<<>>, Secret>>, <<Email, None>>, <<Email, Secret>>}

\* The handlers the runtime can run side by side.
Threads == {1, 2}

\* A handler that is not running; the fields are its position and the local
\* names of get_client() and init_client().
IdleThread ==
    [pc |-> "idle", c |-> NoClient, entered |-> FALSE, entry |-> NoClient,
     logins |-> 0, dumps |-> 0, got |-> NoClient, seen |-> 0]

\* The process state a handler starts from.
Machine ==
    [client |-> client, tokenstore |-> tokenstore, email |-> email,
     password |-> password, remote |-> remote,
     tokenLogins |-> tokenLogins, credLogins |-> credLogins, calls |-> <<>>]

Init ==
    /\ started = FALSE
    /\ client = NoClient
    /\ tokenstore \in {NoStore, SavedStore}
    /\ \E c \in Configurations : email = c[1] /\ password = c[2]
    /\ remote = [hydration |-> 0, calendar |-> <<>>]
    /\ tokenLogins = 0
    /\ credLogins = 0
    /\ invocations = 0
    /\ last = [op |-> "import", args |-> <<>>, pre |-> Machine, calls |-> <<>>,
               thrown |-> "", raised |-> FALSE, result |-> NoResult]
    /\ threads = [t \in Threads |-> IdleThread]
    /\ order = <<>>

\* The process state m after a step, and the record of the step.
Commit(op, args, m, r) ==
    /\ client' = m.client
    /\ tokenstore' = m.tokenstore
    /\ remote' = m.remote
    /\ tokenLogins' = m.tokenLogins
    /\ credLogins' = m.credLogins
    /\ last' = [op |-> op, args |-> args, pre |-> Machine, calls |-> m.calls,
                thrown |-> r.thrown, raised |-> r.raised, result |-> r.result]
    /\ UNCHANGED <<email, password, threads, order>>

\* A step that returns no envelope and raises nothing.
Quiet == [thrown |-> "", raised |-> FALSE, result |-> NoResult]

\* server.py:534-536  `__main__`: init_client(), then mcp.run serves the tools.
Startup ==
    /\ ~started
    /\ started' = TRUE
    /\ \E a \in AuthEnvs(Machine) :
           Commit("__main__", <<>>, InitClient(Machine, a), Quiet)
    /\ UNCHANGED invocations

\* auth.py:15-44  authenticate(), run by the user beside the server: it saves
\* tokens when both variables are set and login and dump succeeded.
Authenticate ==
    /\ \E saved \in (IF Truthy(email) /\ Truthy(password) THEN Outcomes ELSE {"fail"}) :
           Commit("auth.py", <<>>,
                  [Machine EXCEPT !.tokenstore = IF saved = "ok" THEN SavedStore ELSE @],
                  Quiet)
    /\ UNCHANGED <<started, invocations>>

\* server.py:536  mcp.run is waiting for the next request.
Idle == [op |-> "idle", args |-> <<>>, pre |-> Machine, calls |-> <<>>,
         thrown |-> "", raised |-> FALSE, result |-> NoResult]

\* The steps of the process that are no tool invocations.
NotATool == {"import", "__main__", "auth.py", "idle"}

\* server.py:536  mcp.run sends the envelope the handler returned to the agent
\* and waits for the next request.
Respond ==
    /\ last.op \notin NotATool
    /\ last' = Idle
    /\ UNCHANGED <<started, client, tokenstore, email, password, remote,
                   tokenLogins, credLogins, invocations, threads, order>>

\* mcp.run serves, the previous answer was sent, and a request arrives.
Ready ==
    /\ started
    /\ last.op \in NotATool
    /\ invocations < MaxInvocations

\* A tool invocation dispatched by mcp.run (one request at a time): the
\* handler ran to its end.
Tool(op, args, r) ==
    /\ invocations' = invocations + 1
    /\ Commit(op, args, r.m, r)
    /\ UNCHANGED started

\* A tool that makes one passed-through read call `fn` for a date.
DateTool(op, fn) ==
    /\ Ready
    /\ \E a \in AuthEnvs(Machine), date \in DateArgs, today \in Todays :
      \E r \in AnswersIf(Acquires(Machine, a), Payloads) :
        Tool(op, <<date>>, DateRead(Machine, a, fn, date, today, r))

get_daily_summary == DateTool("get_daily_summary", "get_user_summary")

get_body_battery ==
    /\ Ready
    /\ \E a \in AuthEnvs(Machine), date \in DateArgs, today \in Todays :
      \E r1 \in AnswersIf(Acquires(Machine, a), Payloads) :
        \E r2 \in AnswersIf(Acquires(Machine, a) /\ r1.out = "ok", Payloads) :
            Tool("get_body_battery", <<date>>,
                 BodyBattery(Machine, a, date, today, r1, r2))

get_sleep_data ==
    /\ Ready
    /\ \E a \in AuthEnvs(Machine), date \in DateArgs, today \in Todays :
      \E r \in AnswersIf(Acquires(Machine, a), SleepPayloads) :
        Tool("get_sleep_data", <<date>>, SleepData(Machine, a, date, today, r))

get_sleep_detail ==
    /\ Ready
    /\ \E a \in AuthEnvs(Machine), date \in DateArgs, today \in Todays :
      \E r \in AnswersIf(Acquires(Machine, a), SleepPayloads) :
        Tool("get_sleep_detail", <<date>>, SleepDetail(Machine, a, date, today, r))

get_heart_rate == DateTool("get_heart_rate", "get_heart_rates")

get_resting_heart_rate == DateTool("get_resting_heart_rate", "get_rhr_day")

get_stress == DateTool("get_stress", "get_stress_data")

get_steps == DateTool("get_steps", "get_steps_data")

get_menstrual_cycle == DateTool("get_menstrual_cycle", "get_menstrual_data_for_date")

update_menstrual_cycle ==
    /\ Ready
    /\ \E a \in AuthEnvs(Machine), start_date \in DateStrings, end_date \in DateStrings,
       today \in Todays, now \in Nows :
      \E w \in AnswersIf(/\ Acquires(Machine, a)
                         /\ StrpDate(start_date).ok /\ StrpDate(end_date).ok
                         /\ DateLeq(StrpDate(start_date).date, StrpDate(end_date).date),
                         {JNull}) :
        Tool("update_menstrual_cycle", <<start_date, end_date>>,
             UpdateMenstrualCycle(Machine, a, start_date, end_date, today, now, w))

get_hrv == DateTool("get_hrv", "get_hrv_data")

get_hydration == DateTool("get_hydration", "get_hydration_data")

add_hydration ==
    /\ Ready
    /\ \E a \in AuthEnvs(Machine), amount_ml \in AmountsMl :
      \E w \in AnswersIf(Acquires(Machine, a), Payloads) :
        Tool("add_hydration", <<amount_ml>>, AddHydration(Machine, a, amount_ml, w))

get_activities ==
    /\ Ready
    /\ \E a \in AuthEnvs(Machine), limit \in Limits :
      \E r \in AnswersIf(Acquires(Machine, a), ActivityPayloads) :
        Tool("get_activities", <<limit>>, Activities(Machine, a, limit, r))

Next ==
    \/ Startup
    \/ Authenticate
    \/ get_daily_summary
    \/ get_body_battery
    \/ get_sleep_data
    \/ get_sleep_detail
    \/ get_heart_rate
    \/ get_resting_heart_rate
    \/ get_stress
    \/ get_steps
    \/ get_menstrual_cycle
    \/ update_menstrual_cycle
    \/ get_hrv
    \/ get_hydration
    \/ add_hydration
    \/ get_activities
    \/ Respond

Spec == Init /\ [][Next]_vars

----------------------------------------------------------------------------
(* Handlers dispatched side by side: get_client() and init_client() step by *)
(* step.  A step ends where the handler can be suspended: after the test of *)
(* `client`, and around each call into the client library.                  *)

\* What a step of handler t leaves alone.
Elsewhere == UNCHANGED <<started, email, password, remote, last>>

\* The position and local names of handler t after a step.
Moved(t, rec) == threads' = [threads EXCEPT ![t] = rec]

\* server.py:51  where init_client() goes on after the token path: the
\* credential login, or `return None` and the second test of get_client().
AfterTokenPath ==
    IF CredentialsConfigured(email, password) THEN "credLogin" ELSE "recheck"

\* Bug: `client` is assigned only when it is still None.
AssignIfAbsent(cur, c) == IF cur = NoClient THEN c ELSE cur

\* server.py:42, 57  `client = c`
Assign(cur, c) == c

\* server.py:69  a request is dispatched to handler t, which calls
\* get_client() and tests `client is None`.
Check(t) ==
    /\ started
    /\ threads[t].pc \in {"idle", "done"}
    /\ invocations < MaxOps
    /\ invocations' = invocations + 1
    /\ Moved(t, [IdleThread EXCEPT
                   !.pc = IF NeedsInit(client) THEN "enter" ELSE "recheck",
                   !.seen = Len(order)])
    /\ UNCHANGED <<client, tokenstore, tokenLogins, credLogins, order>>
    /\ Elsewhere

\* server.py:70, 31-36  handler t calls init_client(), which tests whether
\* the token store exists.
EnterInit(t) ==
    /\ threads[t].pc = "enter"
    /\ Moved(t, [threads[t] EXCEPT
                   !.entered = TRUE,
                   !.entry = client,
                   !.pc = IF TokenPathAvailable(tokenstore) THEN "tokLogin"
                          ELSE AfterTokenPath])
    /\ UNCHANGED <<client, tokenstore, tokenLogins, credLogins, invocations, order>>
    /\ Elsewhere

\* server.py:38-39, 44-45  c = Garmin(); c.login(tokenstore=TOKENSTORE)
TokenLogin(t) ==
    /\ threads[t].pc = "tokLogin"
    /\ tokenLogins' = tokenLogins + 1
    /\ \E out \in Outcomes :
           Moved(t, [threads[t] EXCEPT
                       !.logins = @ + 1,
                       !.c = [id |-> tokenLogins + credLogins + 1, auth |-> "token"],
                       !.pc = IF out = "ok" THEN "tokDump" ELSE AfterTokenPath])
    /\ UNCHANGED <<client, tokenstore, credLogins, invocations, order>>
    /\ Elsewhere

\* server.py:40, 44-45  c.garth.dump(TOKENSTORE)
TokenDump(t) ==
    /\ threads[t].pc = "tokDump"
    /\ \E out \in Outcomes :
           /\ tokenstore' = Dumped(Machine, threads[t].c, out).tokenstore
           /\ Moved(t, [threads[t] EXCEPT
                          !.dumps = @ + 1,
                          !.pc = IF out = "ok" THEN "assign" ELSE AfterTokenPath])
    /\ UNCHANGED <<client, tokenLogins, credLogins, invocations, order>>
    /\ Elsewhere

\* server.py:53-54, 59-60  c = Garmin(email, password); c.login()
CredLogin(t) ==
    /\ threads[t].pc = "credLogin"
    /\ credLogins' = credLogins + 1
    /\ \E out \in Outcomes :
           Moved(t, [threads[t] EXCEPT
                       !.logins = @ + 1,
                       !.c = [id |-> tokenLogins + credLogins + 1, auth |-> "cred"],
                       !.pc = IF out = "ok" THEN "credDump" ELSE "recheck"])
    /\ UNCHANGED <<client, tokenstore, tokenLogins, invocations, order>>
    /\ Elsewhere

\* server.py:55, 59-60  c.garth.dump(TOKENSTORE)
CredDump(t) ==
    /\ threads[t].pc = "credDump"
    /\ \E out \in Outcomes :
           /\ tokenstore' = Dumped(Machine, threads[t].c, out).tokenstore
           /\ Moved(t, [threads[t] EXCEPT
                          !.dumps = @ + 1,
                          !.pc = IF out = "ok" THEN "assign" ELSE "recheck"])
    /\ UNCHANGED <<client, tokenLogins, credLogins, invocations, order>>
    /\ Elsewhere

\* server.py:42-43, 57-58  client = c; return client
AssignClient(t) ==
    /\ threads[t].pc = "assign"
    /\ client' = Assign(client, threads[t].c)
    /\ order' = Append(order, [t |-> t, session |-> threads[t].c,
                                entry |-> threads[t].entry])
    /\ Moved(t, [threads[t] EXCEPT !.pc = "recheck"])
    /\ UNCHANGED <<tokenstore, tokenLogins, credLogins, invocations>>
    /\ Elsewhere

\* server.py:71-75  the second test of get_client(): raise ConnectionError, or
\* `return client`.
Recheck(t) ==
    /\ threads[t].pc = "recheck"
    /\ Moved(t, [threads[t] EXCEPT !.got = client, !.pc = "use"])
    /\ UNCHANGED <<client, tokenstore, tokenLogins, credLogins, invocations, order>>
    /\ Elsewhere

\* server.py:96-109  handler t makes its data call with the session it got, or
\* returns the unauthenticated envelope, and ends.
Use(t) ==
    /\ threads[t].pc = "use"
    /\ Moved(t, [threads[t] EXCEPT !.pc = "done"])
    /\ UNCHANGED <<client, tokenstore, tokenLogins, credLogins, invocations, order>>
    /\ Elsewhere

NextConc ==
    \/ Startup
    \/ \E t \in Threads : Check(t)
    \/ \E t \in Threads : EnterInit(t)
    \/ \E t \in Threads : TokenLogin(t)
    \/ \E t \in Threads : TokenDump(t)
    \/ \E t \in Threads : CredLogin(t)
    \/ \E t \in Threads : CredDump(t)
    \/ \E t \in Threads : AssignClient(t)
    \/ \E t \in Threads : Recheck(t)
    \/ \E t \in Threads : Use(t)

\* The process when the runtime dispatches handlers concurrently.
SpecConc == Init /\ [][NextConc]_vars

----------------------------------------------------------------------------
(* Reading the record of the latest step *)

IsTool == last.op \notin NotATool

\* The names of the calls the step made.
Fns(calls) == {calls[i].fn : i \in DOMAIN calls}

LoginFns == {"login(tokenstore)", "login(email,password)"}

ReadFns == {"get_user_summary", "get_body_battery", "get_body_battery_events",
            "get_sleep_data", "get_heart_rates", "get_rhr_day", "get_stress_data",
            "get_steps_data", "get_menstrual_data_for_date", "get_hrv_data",
            "get_hydration_data", "get_activities"}

WriteFns == {"add_hydration_data", "connectapi"}

DataFns == ReadFns \cup WriteFns

\* The step called init_client().
Acquiring == "init_client" \in Fns(last.calls)

\* The token path of the step's acquisition: login with the stored tokens, then dump.
TokenLoginOk ==
    \E i \in DOMAIN last.calls :
        last.calls[i] = [fn |-> "login(tokenstore)", out |-> "ok"]

TokenAuthOk ==
    \E i \in DOMAIN last.calls :
        /\ last.calls[i] = [fn |-> "login(tokenstore)", out |-> "ok"]
        /\ i < Len(last.calls)
        /\ last.calls[i + 1] = [fn |-> "garth.dump", out |-> "ok"]

TokenAuthFailed == "login(tokenstore)" \in Fns(last.calls) /\ ~TokenAuthOk

CredLoginOk ==
    \E i \in DOMAIN last.calls :
        last.calls[i] = [fn |-> "login(email,password)", out |-> "ok"]

CredAuthOk ==
    \E i \in DOMAIN last.calls :
        /\ last.calls[i] = [fn |-> "login(email,password)", out |-> "ok"]
        /\ i < Len(last.calls)
        /\ last.calls[i + 1] = [fn |-> "garth.dump", out |-> "ok"]

\* The last call of the step was a data call that raised.
RemoteFailed ==
    /\ last.calls # <<>>
    /\ last.calls[Len(last.calls)].fn \in DataFns
    /\ last.calls[Len(last.calls)].out # "ok"

\* The class the failing data call raised.
RemoteError == last.calls[Len(last.calls)].out

\* The arguments of update_menstrual_cycle are no valid range.
InvalidRange(args) ==
    \/ ~StrpDate(args[1]).ok
    \/ ~StrpDate(args[2]).ok
    \/ DateLess(StrpDate(args[2]).date, StrpDate(args[1]).date)

InvalidUpdate == last.op = "update_menstrual_cycle" /\ InvalidRange(last.args)

HasPrefix(error, prefix) == Len(error) >= 1 /\ error[1] = prefix[1]

Unauthenticated == last.result = Failure(NotAuthenticatedMsg)

\* The error of the envelope is one of the validation category.
ValidationError ==
    /\ ~last.result.success
    /\ \/ HasPrefix(last.result.error, DatePrefix)
       \/ last.result.error = <<"end_date must be on or after start_date">>

----------------------------------------------------------------------------
(* Session caching *)

\* C1: once a session is cached, a tool invocation performs no authentication
\* attempt, whether its own remote call succeeds or fails: it does not call
\* init_client() or login, both login counts are what they were before the
\* invocation, and the count of logins of the process is still the one at which
\* the cached session was made (its id).
C1_SessionCaching ==
    /\ (IsTool /\ last.pre.client # NoClient) =>
           /\ tokenLogins = last.pre.tokenLogins
           /\ credLogins = last.pre.credLogins
           /\ Fns(last.calls) \cap (LoginFns \cup {"init_client", "garth.dump"}) = {}
    /\ client # NoClient => tokenLogins + credLogins = client.id

\* C1 witness: a second invocation on a cached session whose remote call failed.
C1_Witness ==
    /\ IsTool /\ invocations = 2
    /\ last.pre.client # NoClient
    /\ RemoteFailed

----------------------------------------------------------------------------
(* Errors never leave a handler *)

\* A failure happened at some stage of the invocation.
StageFailed ==
    \/ client = NoClient
    \/ RemoteFailed
    \/ InvalidUpdate
    \/ last.thrown # ""

\* C2: no handler raises; whenever a stage of the invocation failed (no
\* session, a remote call that raised, an input that does not parse, an
\* exception while reshaping) the handler returned an envelope with success =
\* FALSE and an error message.
C2_NoErrorEscapes ==
    IsTool =>
        /\ ~last.raised
        /\ StageFailed => (~last.result.success /\ last.result.error # <<>>)

\* C2 witness: a remote call raised an exception that is none of the classified
\* ones, and the handler returned a failure envelope.
C2_Witness ==
    /\ IsTool /\ RemoteFailed /\ RemoteError = "RuntimeError"
    /\ ~last.raised /\ ~last.result.success

\* C2 witness of the reshaping case: get_sleep_data answered with no dict.
C2_WitnessReshape ==
    /\ last.op = "get_sleep_data" /\ last.thrown = "AttributeError"
    /\ ~last.raised /\ ~last.result.success

----------------------------------------------------------------------------
(* Validation and the order of the checks in update_menstrual_cycle *)

\* C3: update_menstrual_cycle with a start or end that does not parse, or with
\* end before start, performs no network activity at all: no token login, no
\* credential login, no remote data call, in every session state.
C3_ValidationBeforeNetwork ==
    InvalidUpdate =>
        /\ Fns(last.calls) \cap (LoginFns \cup DataFns) = {}
        /\ tokenLogins = last.pre.tokenLogins
        /\ credLogins = last.pre.credLogins

\* C4: update_menstrual_cycle with an invalid range returns a failure envelope
\* of the validation category and issues no remote write, in every session
\* state.
C4_InvalidInputIsValidationError ==
    InvalidUpdate =>
        /\ ValidationError
        /\ "connectapi" \notin Fns(last.calls)

----------------------------------------------------------------------------
(* The two tiers of init_client *)

\* C5: when the cache is empty, the token store exists and the token path
\* succeeds (login with the stored tokens, then dump), the acquisition makes
\* no credential login.
C5_TokenFirst ==
    (Acquiring /\ last.pre.client = NoClient /\ last.pre.tokenstore.exists /\ TokenAuthOk) =>
        /\ credLogins = last.pre.credLogins
        /\ "login(email,password)" \notin Fns(last.calls)
        /\ client.auth = "token"

\* C5 witness: a token acquisition with both credentials configured.
C5_Witness ==
    /\ Acquiring /\ last.pre.client = NoClient /\ last.pre.tokenstore.exists
    /\ TokenAuthOk
    /\ CredentialsConfigured(email, password)

\* C6 as stated: the token store exists, the token path fails, both
\* credentials are configured and the credential login succeeds; then a
\* credential-authenticated session is cached and the token store holds its
\* tokens.
C6_FallbackOnLogin ==
    (/\ Acquiring /\ last.pre.tokenstore.exists /\ TokenAuthFailed
     /\ CredentialsConfigured(email, password) /\ CredLoginOk) =>
        /\ client.auth = "cred"
        /\ tokenstore = [exists |-> TRUE, owner |-> client.id]

\* C6 amended: the same, when the credential login and the dump of its tokens
\* both succeed.
C6_Fallback ==
    (/\ Acquiring /\ last.pre.tokenstore.exists /\ TokenAuthFailed
     /\ CredentialsConfigured(email, password) /\ CredAuthOk) =>
        /\ client.auth = "cred"
        /\ client.id = tokenLogins + credLogins
        /\ tokenstore = [exists |-> TRUE, owner |-> client.id]

\* C6 witness: the token login succeeded but its dump failed, and the
\* credential path then succeeded.
C6_Witness ==
    /\ Acquiring /\ last.pre.tokenstore.exists
    /\ TokenLoginOk /\ TokenAuthFailed
    /\ CredAuthOk /\ client.auth = "cred"

----------------------------------------------------------------------------
(* Failed acquisition *)

\* C7: with no token store and without both credentials, a tool invocation
\* returns the unauthenticated envelope and makes no remote call: no login, no
\* dump, no data read, no data write.
C7_MissingEverything ==
    (IsTool /\ ~last.pre.tokenstore.exists /\ ~(Truthy(email) /\ Truthy(password))) =>
        /\ Unauthenticated
        /\ Fns(last.calls) \subseteq {"init_client"}

\* C7 witness: the email is set and the password is not.
C7_Witness ==
    /\ IsTool /\ ~last.pre.tokenstore.exists
    /\ email = Email /\ password = None
    /\ Unauthenticated

\* C8: when the acquisition of a tool invocation fails, the handler returns
\* the failure envelope with the unauthenticated message, without the
\* remote-API prefix, and makes no data call.
C8_AcquisitionFailure ==
    (IsTool /\ client = NoClient) =>
        /\ Unauthenticated
        /\ ~HasPrefix(last.result.error, ApiPrefix)
        /\ Fns(last.calls) \cap DataFns = {}

\* C8 witness: both tiers were tried and failed.
C8_Witness ==
    /\ IsTool /\ client = NoClient
    /\ Fns(last.calls) = {"init_client"} \cup LoginFns
    /\ Unauthenticated

\* C9: a remote call that raises one of the three classified errors yields a
\* failure envelope whose error is the prefix 'Garmin API error: ' followed by
\* the text of the error; every other failure envelope lacks the prefix.
C9_RemoteErrorPrefix ==
    IsTool =>
        /\ (RemoteFailed /\ RemoteError \in GarminErrors) =>
               /\ ~last.result.success
               /\ last.result.error = ApiPrefix \o ExcMsg(RemoteError)
        /\ (~last.result.success /\ ~(RemoteFailed /\ RemoteError \in GarminErrors)) =>
               ~HasPrefix(last.result.error, ApiPrefix)

\* C9 witness: a rate-limit error in a read tool.
C9_Witness ==
    /\ IsTool /\ last.op # "update_menstrual_cycle"
    /\ RemoteFailed /\ RemoteError = "GarminConnectTooManyRequestsError"
    /\ HasPrefix(last.result.error, ApiPrefix)

\* The invocation went on after get_client(): it made its data call, or it
\* is update_menstrual_cycle ending at the validation of its range.
Proceeded ==
    /\ ~Unauthenticated
    /\ IF InvalidUpdate THEN ValidationError
       ELSE Fns(last.calls) \cap DataFns # {}

\* C10: a failed acquisition is not cached.  When every tier fails at startup
\* the session stays empty and the process serves; a tool invoked with an empty
\* session calls init_client() again, goes on with the new session when a tier
\* succeeds, and returns the unauthenticated envelope otherwise.
C10_FailedAcquisitionNotCached ==
    /\ (last.op = "__main__" /\ ~TokenAuthOk /\ ~CredAuthOk) =>
           (started /\ client = NoClient /\ ~last.raised)
    /\ (IsTool /\ last.pre.client = NoClient) =>
           /\ last.calls # <<>>
           /\ last.calls[1].fn = "init_client"
           /\ client # NoClient => Proceeded
           /\ client = NoClient => Unauthenticated

\* C10 witness: startup failed, the first tool failed to authenticate too, and
\* the second one authenticated and made its data call.
C10_Witness ==
    /\ IsTool /\ invocations = 2
    /\ last.pre.client = NoClient
    /\ last.pre.tokenLogins + last.pre.credLogins >= 2
    /\ client # NoClient /\ Proceeded

----------------------------------------------------------------------------
(* Side effects of the read tools *)

WriteTools == {"add_hydration", "update_menstrual_cycle"}

\* The step is an invocation of one of the tools that only read.
IsReadTool == IsTool /\ last.op \notin WriteTools

\* C11 as stated: an invocation of a tool that is no write tool, in any
\* session state including an empty session cache, leaves the token store and
\* the remote data as they were.
C11_ReadsChangeNothing ==
    IsReadTool => (tokenstore = last.pre.tokenstore /\ remote = last.pre.remote)

\* C11 amended: a tool that is no write tool never changes the remote data,
\* and leaves the token store as it was when a session was cached before the
\* invocation; on an empty cache the token store changes only by the dump of
\* the tokens of the session the invocation acquired, and only a step
\* of a write tool whose write call succeeded changes the remote data.
C11_ReadsWriteOnlyTokens ==
    /\ IsReadTool =>
           /\ remote = last.pre.remote
           /\ last.pre.client # NoClient => tokenstore = last.pre.tokenstore
           /\ tokenstore # last.pre.tokenstore =>
                  /\ last.pre.client = NoClient /\ client # NoClient
                  /\ (TokenAuthOk \/ CredAuthOk)
                  /\ tokenstore = [exists |-> TRUE, owner |-> client.id]
    /\ remote # last.pre.remote =>
           /\ last.op \in WriteTools
           /\ \E i \in DOMAIN last.calls :
                  last.calls[i].fn \in WriteFns /\ last.calls[i].out = "ok"

\* C11 witness: a read tool on an empty session cache acquired a session, the
\* token store holds that session's tokens now, and the remote data are as
\* they were.
C11_Witness ==
    /\ IsReadTool /\ last.pre.client = NoClient
    /\ tokenstore # last.pre.tokenstore
    /\ remote = last.pre.remote
    /\ last.result.success

----------------------------------------------------------------------------
(* The dates update_menstrual_cycle sends *)

\* The days of year y before month m.
RECURSIVE DaysBeforeMonth(_, _)
DaysBeforeMonth(y, m) ==
    IF m = 1 THEN 0 ELSE DaysBeforeMonth(y, m - 1) + DaysInMonth(y, m - 1)

\* The number of the day in the proleptic Gregorian calendar, 0001-01-01
\* being day 1 (date.toordinal()).
ToOrdinal(dt) ==
    365 * (dt.y - 1) + (dt.y - 1) \div 4 - (dt.y - 1) \div 100 + (dt.y - 1) \div 400
        + DaysBeforeMonth(dt.y, dt.m) + dt.d

\* The step is update_menstrual_cycle with two parseable dates, start <= end,
\* and it got a session.
ValidUpdate ==
    /\ last.op = "update_menstrual_cycle" /\ ~InvalidRange(last.args)
    /\ client # NoClient

\* The POST calls of the step.
Posts == SelectSeq(last.calls, LAMBDA c : c.fn = "connectapi")

C12_WitnessOneDay ==
    /\ ValidUpdate
    /\ last.args = <<Str_2024_2_29, Str_2024_2_29>>
    /\ last.result.success
    /\ Len(last.result.dates) = 1

----------------------------------------------------------------------------
(* Envelopes are whole *)

\* The tools whose success envelope is {success, date, data}.
DateTools == {"get_daily_summary", "get_sleep_data", "get_sleep_detail",
              "get_heart_rate", "get_resting_heart_rate", "get_stress", "get_steps",
              "get_menstrual_cycle", "get_hrv", "get_hydration"}

\* The keys of the success envelope of a tool.
SuccessKeys(op) ==
    CASE op \in DateTools               -> {"success", "date", "data"}
      [] op = "get_body_battery"        -> {"success", "date", "battery", "events"}
      [] op = "get_activities"          -> {"success", "count", "data"}
      [] op = "add_hydration"           -> {"success", "logged_ml", "message", "data"}
      [] op = "update_menstrual_cycle"  -> {"success", "message", "dates"}

\* The battery-levels call of the step succeeded and its events call raised.
EventsFailed ==
    /\ last.op = "get_body_battery"
    /\ \E i \in DOMAIN last.calls :
           last.calls[i].fn = "get_body_battery" /\ last.calls[i].out = "ok"
    /\ RemoteFailed
    /\ last.calls[Len(last.calls)].fn = "get_body_battery_events"

\* C13: the envelope a handler returns is either the success envelope with
\* every key of its payload and no error, or a failure envelope with nothing
\* but the error; a success envelope is returned only when every data call of
\* the step succeeded; and when the battery-levels call succeeds and the
\* events call fails, get_body_battery returns a failure envelope without
\* battery data.
C13_NoPartialSuccess ==
    IsTool =>
        /\ IF last.result.success
           THEN /\ DOMAIN last.result = SuccessKeys(last.op)
                /\ \A i \in DOMAIN last.calls :
                       last.calls[i].fn \in DataFns => last.calls[i].out = "ok"
           ELSE DOMAIN last.result = {"success", "error"}
        /\ EventsFailed =>
               /\ ~last.result.success
               /\ DOMAIN last.result \cap {"battery", "events", "date", "data"} = {}

\* C13 witness: battery levels read, events call raised, failure envelope.
C13_Witness ==
    /\ EventsFailed
    /\ last.calls[Len(last.calls) - 1].ret # JNull
    /\ ~last.result.success

----------------------------------------------------------------------------
(* No retries *)

\* The data calls of the step, in order.
DataCalls == SelectSeq(last.calls, LAMBDA c : c.fn \in DataFns)

\* C14: within one invocation every remote data call is issued at most once,
\* one call per handler and two for get_body_battery; a data call that raised
\* is the last call of the invocation (no further data call, no login, no
\* init_client() after it); the invocation makes at most one token login and
\* one credential login; and the failure is reported by one failure envelope.
C14_NoRetries ==
    IsTool =>
        /\ Len(DataCalls) <= (IF last.op = "get_body_battery" THEN 2 ELSE 1)
        /\ \A i, j \in DOMAIN DataCalls :
               i # j => DataCalls[i].fn # DataCalls[j].fn
        /\ \A i \in DOMAIN last.calls :
               (last.calls[i].fn \in DataFns /\ last.calls[i].out # "ok") =>
                   i = Len(last.calls)
        /\ tokenLogins - last.pre.tokenLogins <= 1
        /\ credLogins - last.pre.credLogins <= 1
        /\ RemoteFailed =>
               /\ ~last.result.success
               /\ DOMAIN last.result = {"success", "error"}
               /\ ~last.raised

\* C14 witness: the invocation acquired its session and its one data call
\* raised.
C14_Witness ==
    /\ IsTool /\ Acquiring /\ RemoteFailed
    /\ Len(DataCalls) = 1
    /\ client # NoClient

----------------------------------------------------------------------------
(* The cached session stays *)

\* C15: once a session is cached, no step of the process clears or replaces
\* it, whatever the outcome of the handler (success, a classified remote error
\* such as a rejected authentication, an unknown error): the session after the
\* step is the session before it, and no other session was made since it was
\* cached.
C15_SessionStable ==
    last.pre.client # NoClient =>
        /\ client = last.pre.client
        /\ tokenLogins + credLogins = client.id

\* C15 witness: the second invocation on a cached session; the remote service
\* rejected the authentication in the middle of its data call.
C15_Witness ==
    /\ IsTool /\ invocations = 2
    /\ last.pre.client # NoClient
    /\ RemoteFailed /\ RemoteError = "GarminConnectAuthenticationError"
    /\ client = last.pre.client

----------------------------------------------------------------------------
(* What the two sleep tools expose *)

\* v[key] for a dict v that has the key, None otherwise.
Field(v, key) ==
    IF v.t = "obj" /\ key \in DOMAIN v.fields THEN v.fields[key] ELSE JNull

\* dailySleepDTO.sleepScores.overall.value of a sleep payload.
OverallScore(sleep) ==
    Field(Field(Field(Field(sleep, "dailySleepDTO"), "sleepScores"), "overall"), "value")

\* The per-minute and per-epoch series of a sleep payload.
SeriesKeys == {"sleepMovement", "sleepHeartRate", "sleepStress", "sleepBodyBattery",
               "hrvData", "wellnessEpochSPO2DataDTOList",
               "wellnessEpochRespirationDataDTOList", "sleepRestlessMoments"}

\* The step is a sleep tool that returned its data.
SleepAnswered(op) == last.op = op /\ last.result.success

\* C16: the data of a successful get_sleep_data has sleepScore equal to
\* dailySleepDTO.sleepScores.overall.value of the payload the remote call
\* returned (None when the payload has none); its keys are disjoint from the
\* keys get_sleep_detail exposes for the same payload, and none of its values
\* is one of the payload's series; the keys of the data of a successful
\* get_sleep_detail are disjoint from the keys of the summary.
C16_SleepProjection ==
    /\ SleepAnswered("get_sleep_data") =>
           LET sleep == DataCalls[1].ret
               data  == last.result.data
           IN  /\ "sleepScore" \in DOMAIN data
               /\ data.sleepScore = OverallScore(sleep)
               /\ DOMAIN data \cap DOMAIN SleepDetailOf(sleep).detail = {}
               /\ \A k \in DOMAIN data, x \in SeriesKeys :
                      Field(sleep, x) # JNull => data[k] # Field(sleep, x)
    /\ SleepAnswered("get_sleep_detail") =>
           LET sleep == DataCalls[1].ret
           IN  /\ DOMAIN last.result.data \cap DOMAIN SleepSummary(sleep).summary = {}
               /\ Cardinality(DOMAIN last.result.data) = 8

\* C16 witness: the summary of a full night, whose payload has a score and
\* movement and heart-rate series.
C16_Witness ==
    /\ SleepAnswered("get_sleep_data")
    /\ DataCalls[1].ret = FullSleep
    /\ last.result.data.sleepScore = JNum(85)
    /\ Field(DataCalls[1].ret, "sleepMovement") # JNull

\* C16 witness of the detail tool on the same payload.
C16_WitnessDetail ==
    /\ SleepAnswered("get_sleep_detail")
    /\ DataCalls[1].ret = FullSleep
    /\ last.result.data.sleepMovement # JNull

----------------------------------------------------------------------------
(* When the logins are made *)

\* C18: an acquisition makes a credential login only when both the email and
\* the password are configured; when either is absent it ends without a
\* session and without a credential login unless the token path succeeded,
\* also right after a failed token attempt; and it makes a token login only
\* when the token store path existed.
C18_LoginPreconditions ==
    Acquiring =>
        /\ ("login(email,password)" \in Fns(last.calls) \/ credLogins # last.pre.credLogins) =>
               (Truthy(email) /\ Truthy(password))
        /\ (~(Truthy(email) /\ Truthy(password)) /\ ~TokenAuthOk) =>
               /\ client = NoClient
               /\ credLogins = last.pre.credLogins
               /\ tokenstore = last.pre.tokenstore
        /\ ("login(tokenstore)" \in Fns(last.calls) \/ tokenLogins # last.pre.tokenLogins) =>
               last.pre.tokenstore.exists

\* C18 witness: the token attempt has just failed and the password is not
\* configured: no credential login, no session.
C18_Witness ==
    /\ Acquiring /\ TokenAuthFailed
    /\ email = Email /\ password = None
    /\ "login(email,password)" \notin Fns(last.calls)
    /\ client = NoClient

----------------------------------------------------------------------------
(* Caching comes after persisting *)

\* C20: a step that caches a session made the login of the session's tier
\* and, right after it, wrote its tokens to the token store, which holds them
\* at the end of the step; a token login that succeeded but whose dump raised
\* caches no token session and goes on to the credential path: the credential
\* login is made when both credentials are configured, and the cache stays
\* empty when they are not.
C20_CachedAfterPersisted ==
    /\ client # last.pre.client =>
           /\ client # NoClient
           /\ client.auth = "token" => TokenAuthOk
           /\ client.auth = "cred" => CredAuthOk
           /\ tokenstore = [exists |-> TRUE, owner |-> client.id]
    /\ (Acquiring /\ TokenLoginOk /\ ~TokenAuthOk) =>
           /\ client.auth # "token"
           /\ CredentialsConfigured(email, password) =>
                  "login(email,password)" \in Fns(last.calls)
           /\ ~CredentialsConfigured(email, password) =>
                  (client = NoClient /\ tokenstore = last.pre.tokenstore)

\* C20 witness: the token login succeeded, the dump of its tokens raised, no
\* credentials are configured: the cache is empty.
C20_Witness ==
    /\ Acquiring /\ TokenLoginOk /\ ~TokenAuthOk
    /\ ~CredentialsConfigured(email, password)
    /\ client = NoClient

\* C20 witness of a cached session: a tool cached a token session whose
\* tokens the store holds.
C20_WitnessCached ==
    /\ IsTool /\ client # last.pre.client
    /\ client.auth = "token"
    /\ tokenstore.owner = client.id

----------------------------------------------------------------------------
(* Acquisitions side by side *)

\* Handler t is in init_client(), or back from it.
InInit(t) == threads[t].entered

\* C17 as stated: when a session is already cached at the moment
\* init_client() is invoked, the call makes no login and no token-store write
\* and leaves that session cached.
C17_InitClientNoOp ==
    \A t \in Threads :
        (InInit(t) /\ threads[t].entry # NoClient) =>
            /\ threads[t].logins = 0
            /\ threads[t].dumps = 0
            /\ client = threads[t].entry

\* The assignments to `client` were made by different handlers that had all
\* entered init_client() on an empty cache.
Raced ==
    /\ Len(order) >= 2
    /\ order[1].t # order[2].t
    /\ order[1].entry = NoClient /\ order[2].entry = NoClient

\* C19: two handlers dispatched side by side on an empty cache can both pass
\* the test `client is None` and both authenticate and write the token store;
\* whenever handlers have assigned `client`, the cached session is the one of
\* the last assignment, the sessions assigned are distinct objects and the
\* token store was written; and a handler that finds the cache filled and
\* runs while no assignment happens makes no login and gets the session that
\* is cached.
C19_UnguardedAcquisition ==
    /\ order # <<>> =>
           /\ client = order[Len(order)].session
           /\ tokenstore.exists /\ tokenstore.owner \in 1..(tokenLogins + credLogins)
           /\ \A i, j \in DOMAIN order : i # j => order[i].session # order[j].session
           /\ Len(order) <= tokenLogins + credLogins
    /\ \A t \in Threads :
           (/\ threads[t].pc \in {"use", "done"} /\ ~InInit(t)
            /\ threads[t].seen = Len(order)) =>
               /\ threads[t].logins = 0 /\ threads[t].dumps = 0
               /\ threads[t].got = client
               /\ client # NoClient

\* C19 witness: both handlers passed the test on an empty cache, both logged
\* in and assigned `client`, and a handler dispatched afterwards got the
\* session of the second assignment without a login.
C19_Witness ==
    /\ Raced
    /\ tokenLogins + credLogins >= 2
    /\ \E t \in Threads :
           /\ threads[t].pc = "done" /\ ~InInit(t)
           /\ threads[t].seen = 2
           /\ threads[t].got = order[2].session
    /\ \A t \in Threads : threads[t].pc \in {"idle", "done"}

----------------------------------------------------------------------------
(* The failure categories of update_menstrual_cycle *)

\* One of the two arguments of the step does not parse as a date.
Unparseable == ~StrpDate(last.args[1]).ok \/ ~StrpDate(last.args[2]).ok

\* The acquisition of the step ended without a session.
AcquisitionFailed == Acquiring /\ client = NoClient

\* C21: update_menstrual_cycle returns the error 'Invalid date format: ...'
\* only when start_date or end_date did not parse, and a failure of the
\* session acquisition or of the remote write, whatever it raised, is never
\* reported as an error of the validation category.
C21_CategoriesNotConfused ==
    last.op = "update_menstrual_cycle" =>
        /\ (~last.result.success /\ HasPrefix(last.result.error, DatePrefix)) => Unparseable
        /\ (AcquisitionFailed \/ RemoteFailed) => ~ValidationError

\* The same, but for a remote write that raised a ValueError.
C21_ExceptValueError ==
    (last.op = "update_menstrual_cycle" /\ ~(RemoteFailed /\ RemoteError = "ValueError")) =>
        /\ (~last.result.success /\ HasPrefix(last.result.error, DatePrefix)) => Unparseable
        /\ (AcquisitionFailed \/ RemoteFailed) => ~ValidationError

====
